---- MODULE Spec2Model ----
(***************************************************************************)
(* Model of typhon.spareice.datasets.Dataset: the file search (find) and   *)
(* the parallel dispatch (map / imap).                                     *)
(*                                                                         *)
(* Time is counted in microseconds, the resolution of datetime.  The       *)
(* smallest and the largest datetime are DatetimeMin and DatetimeMax; the  *)
(* files of a dataset carry ordinary timestamps strictly between them.     *)
(* A FileInfo is a record [path, times]; the path of the i-th file that    *)
(* glob lists is i, the path of a single-file dataset is 0.                *)
(***************************************************************************)
EXTENDS Integers, Sequences, FiniteSets, TLC

\* ---------------------------------------------------------------- bounds
MaxT == 3
MaxFiles == 3
MaxDur == 1
MaxBundle == 2
BundleFreq == 2
MaxInputs == 3
MaxWorkers == 2
MaxCached == 2
MaxGets == 2
Radix == 2
MaxDatasets == 2
MaxInterval == 2
MaxObjects == 2

\* ------------------------------------------------------------- constants
DatetimeMin == 0
DatetimeMax == MaxT
Microsecond == 1
\* None, a value that is no datetime and no timedelta
None == DatetimeMin - 1

Time == DatetimeMin..DatetimeMax
FileTime == (DatetimeMin + 1)..(DatetimeMax - 1)
FileIntervals == {iv \in FileTime \X FileTime : iv[1] <= iv[2] /\ iv[2] - iv[1] <= MaxDur}
DefaultCoverage == <<DatetimeMin, DatetimeMax>>
ExcludeChoices == {{}, {<<DatetimeMin + 2, DatetimeMax - 1>>}}
BundleChoices == {[kind |-> "none", n |-> 0], [kind |-> "str", n |-> BundleFreq]}
                     \cup {[kind |-> "int", n |-> k] : k \in 1..MaxBundle}
\* the calls of find: every window without bundling, and every kind of
\* bundling for the windows that start at the smallest datetime
FindArgs ==
    [start : Time, end : Time, sort : BOOLEAN,
     bundle : {[kind |-> "none", n |-> 0]}, no_files_error : BOOLEAN]
        \cup [start : {DatetimeMin}, end : Time, sort : BOOLEAN,
              bundle : BundleChoices, no_files_error : BOOLEAN]
NoArgs == [start |-> DatetimeMin, end |-> DatetimeMax, sort |-> TRUE,
           bundle |-> [kind |-> "none", n |-> 0], no_files_error |-> TRUE]

VARIABLES
    single_file,     \* Dataset.single_file
    path_exists,     \* os.path.isfile(self.path) of a single-file dataset
    time_coverage,   \* Dataset.time_coverage: the coverage of a single-file dataset,
                     \* the timedelta of each file (or None) of a multi-file one
    fs,              \* times of the files matching the path regex, in glob order
    exclude,         \* Dataset.exclude: the excluded periods ({} = None)
    fpc,             \* position of the find generator
    fargs,           \* arguments of the running find call
    fend,            \* local end after the microsecond was subtracted
    ffPos,           \* file_finder: index of the next file glob will hand out
    teeBuf,          \* tee: files pulled by check_files, kept for return_files
    out,             \* what _prepare_find_files_return still has to yield
    yielded,         \* what find has yielded so far (a sequence of bundles)
    ferr,            \* exception that ended find ("none" if none)
    listed,          \* number of directory listings find has started
    inputs,          \* map/imap: the input stream (files)
    nworkers,        \* map/imap: max_workers of the pool
    mode,            \* "map" or "imap"
    ipc,             \* position of map / of the imap generator
    submitted,       \* number of tasks handed to the pool (in input order)
    task,            \* task index -> "queued" | "running" | "done"
    waitFor,         \* task whose result .get() is waiting for (0 = none)
    outputs,         \* results delivered to the caller, in delivery order
    merr,            \* exception that ended map/imap ("none" if none)
    maxInFlight,     \* largest number of tasks submitted and not yet yielded
    func,            \* map/imap: the user function (how it behaves on which file)
    output,          \* map/imap: whether an output dataset (sink) is configured
    written,         \* the files written to the output dataset, in write order
    pool,            \* the worker pool of the dispatch: "none" | "open"
    info_cache,      \* Dataset.info_cache: path -> times of the cached FileInfo
    returned,        \* what the calls of get_info returned, in call order
    disk,            \* the info cache file and its .backup on disk
    cpc,             \* the last step of load_info_cache / save_info_cache
    closest,         \* the call of find_closest and how it ended
    filename,        \* a filename: the placeholders of the path and their captures
    coverage,        \* the time coverage retrieved from the filename
    template,        \* generate_filename: the placeholders of the template
    start_end,       \* generate_filename: the times (start, end) to render
    user_placeholder,  \* Dataset._user_placeholder (class attribute): name -> regex
    datasets,        \* the Dataset objects: their path placeholders and path regex
    ph_call,         \* the last call that touched or used the user placeholders
    files1,          \* overlaps_with: times of the files of this dataset, in glob order
    files2,          \* overlaps_with: times of the files of other_dataset, in glob order
    ov,              \* overlaps_with: the call, its position and what it yielded
    names,           \* the name of every Dataset object
    link,            \* Dataset._link of every Dataset: name of the target -> target
    rd,              \* the last call of read and how it ended
    mg,              \* GroupedArrays.merge: the arguments of the call and its result
    th,              \* map with thread workers and file_arg_keys: kwargs and the tasks
    walk,            \* find on sub directories: the path, a file, the window, the result
    pathst           \* a Dataset object: its path and what the path setter derived from it

cacheVars == <<info_cache, returned, disk, cpc>>
dsVars == <<single_file, path_exists, time_coverage, fs, exclude, cacheVars>>
findVars == <<fpc, fargs, fend, ffPos, teeBuf, out, yielded, ferr, listed>>
callVars == <<inputs, nworkers, mode, func, output>>
mapVars == <<callVars, ipc, submitted, task, waitFor, outputs, merr, maxInFlight,
             written, pool>>
nameVars == <<filename, coverage, template, start_end>>
phVars == <<user_placeholder, datasets, ph_call>>
ovVars == <<files1, files2, ov>>
linkVars == <<names, link, rd>>
restVars == <<closest, nameVars, phVars, ovVars, linkVars, mg, th, walk, pathst>>
vars == <<dsVars, findVars, mapVars, restVars>>

\* ------------------------------------------------------- interval helpers
\* IntervalTree.interval_overlaps: closed intervals
interval_overlaps(a, b) == a[1] <= b[2] /\ a[2] >= b[1]

\* period in IntervalTree: the period lies inside a stored interval
tree_contains(tree, period) ==
    \E iv \in tree : iv[1] <= period[1] /\ period[2] <= iv[2]

\* Dataset.is_excluded
is_excluded(period) ==
    IF exclude = {} THEN FALSE ELSE tree_contains(exclude, period)

\* Dataset.get_info as find sees it on a dataset whose files and coverage
\* do not change during the search: the times retrieved for the file, or
\* the configured coverage of a single-file dataset
get_info(path) ==
    IF single_file THEN [path |-> path, times |-> time_coverage]
    ELSE [path |-> path, times |-> fs[path]]

\* ------------------------------------------------------------------ find
\* find: end -= timedelta(microseconds=1)
HalfOpenEndNoShift(end) == end
HalfOpenEnd(end) == end - Microsecond

\* find: if end < start: raise ValueError
InvalidWindowLax(start, end) == end + Microsecond < start
InvalidWindow(start, end) == end < start

\* _get_matching_files: the condition under which a listed file is yielded
FileMatches(info, start, end) ==
    interval_overlaps(info.times, <<start, end>>) /\ ~is_excluded(info.times)

\* file_finder: the next file at or after pos that _get_matching_files
\* yields, 0 when the listing is exhausted
RECURSIVE NextMatch(_, _, _)
NextMatch(pos, start, end) ==
    IF pos > Len(fs) THEN 0
    ELSE IF FileMatches(get_info(pos), start, end) THEN pos
    ELSE NextMatch(pos + 1, start, end)

\* all files file_finder hands out from pos on, in discovery order
RECURSIVE RestMatches(_, _, _)
RestMatches(pos, start, end) ==
    LET m == NextMatch(pos, start, end)
    IN IF m = 0 THEN <<>> ELSE <<m>> \o RestMatches(m + 1, start, end)

\* key=lambda x: x.times[0]
SortKeyEnd(p) == get_info(p).times[2]
SortKey(p) == get_info(p).times[1]

\* sorted(): insertion of one element behind all elements with a key that
\* is not larger (stable)
RECURSIVE InsertSorted(_, _)
InsertSorted(s, p) ==
    IF s = <<>> THEN <<p>>
    ELSE IF SortKey(p) < SortKey(Head(s)) THEN <<p>> \o s
    ELSE <<Head(s)>> \o InsertSorted(Tail(s), p)

RECURSIVE Sorted(_)
Sorted(s) ==
    IF s = <<>> THEN <<>>
    ELSE InsertSorted(Sorted(SubSeq(s, 1, Len(s) - 1)), s[Len(s)])

\* _prepare_find_files_return: if sort or isinstance(bundle_size, int)
SortsFirstOnSortOnly(sort, bundle) == sort
SortsFirst(sort, bundle) == sort \/ bundle.kind = "int"

Min(a, b) == IF a < b THEN a ELSE b

RECURSIVE SeqsUpTo(_, _)
SeqsUpTo(S, n) ==
    IF n = 0 THEN {<<>>}
    ELSE LET shorter == SeqsUpTo(S, n - 1)
         IN shorter \cup {Append(s, x) : s \in {t \in shorter : Len(t) = n - 1}, x \in S}

\* files[i:i + bundle_size] for i in range(0, len(files), bundle_size)
RECURSIVE ChunksDropping(_, _)
ChunksDropping(files, n) ==
    IF files = <<>> THEN <<>>
    ELSE <<SubSeq(files, 1, Min(n, Len(files)))>>
             \o ChunksDropping(SubSeq(files, Min(n + 1, Len(files)) + 1, Len(files)), n)

RECURSIVE Chunks(_, _)
Chunks(files, n) ==
    IF files = <<>> THEN <<>>
    ELSE <<SubSeq(files, 1, Min(n, Len(files)))>>
             \o Chunks(SubSeq(files, Min(n, Len(files)) + 1, Len(files)), n)

\* pandas: Series.groupby(pd.Grouper(freq=...)) orders the series by its
\* index (stable) and cuts it into bins of width freq; the generator drops
\* the empty bins (if bundle[1].any())
GroupKey(p, freq) == get_info(p).times[1] \div freq

RECURSIVE GroupByFreq(_, _)
GroupByFreq(files, freq) ==
    IF files = <<>> THEN <<>>
    ELSE LET k == GroupKey(Head(files), freq)
             same == SelectSeq(files, LAMBDA p : GroupKey(p, freq) = k)
             rest == SelectSeq(files, LAMBDA p : GroupKey(p, freq) # k)
         IN <<same>> \o GroupByFreq(rest, freq)

Singletons(files) == [i \in 1..Len(files) |-> <<files[i]>>]

\* _prepare_find_files_return for an iterator that is consumed at once
\* (sort or bundle given): the sequence of yields
PrepareReturn(files, sort, bundle) ==
    LET it == IF SortsFirst(sort, bundle) THEN Sorted(files) ELSE files
    IN CASE bundle.kind = "none" -> Singletons(it)
         [] bundle.kind = "int" -> Chunks(it, bundle.n)
         [] OTHER -> GroupByFreq(Sorted(it), bundle.n)

\* yield from file_iterator pulls one file per yield when the iterator is
\* neither sorted nor bundled
IsLazy(args) == ~args.sort /\ args.bundle.kind = "none"

\* the assignments one step of the find generator makes
FindSet(pc, e, end, pos, buf, q, ys, l) ==
    /\ fpc' = pc
    /\ ferr' = e
    /\ fend' = end
    /\ ffPos' = pos
    /\ teeBuf' = buf
    /\ out' = q
    /\ yielded' = ys
    /\ listed' = l
    /\ UNCHANGED <<fargs, dsVars, mapVars, restVars>>

FindRaise(e, l) == FindSet("done", e, fend, ffPos, teeBuf, out, yielded, l)

\* the caller creates the generator: no line of find has run yet
FindCall ==
    /\ fpc \in {"idle", "closed"}
    /\ \E a \in FindArgs : fargs' = a
    /\ fpc' = "created"
    /\ ferr' = "none"
    /\ fend' = DatetimeMax
    /\ ffPos' = 1
    /\ teeBuf' = <<>>
    /\ out' = <<>>
    /\ yielded' = <<>>
    /\ listed' = 0
    /\ UNCHANGED <<dsVars, mapVars, restVars>>

\* single-file branch of find
FindSingleFile(end) ==
    IF ~path_exists THEN FindRaise("ValueError", 0)
    ELSE LET file_info == get_info(0)
         IN IF interval_overlaps(file_info.times, <<fargs.start, end>>)
            THEN FindSet("single", "none", end, ffPos, teeBuf, out,
                         Append(yielded, <<file_info.path>>), 0)
            ELSE IF fargs.no_files_error THEN FindRaise("NoFilesError", 0)
            ELSE FindSet("done", "none", end, ffPos, teeBuf, out, yielded, 0)

\* yield from _prepare_find_files_return(iterator, sort, bundle), up to its
\* first yield; buf and pos are the state of the iterator
FindPrepare(end, buf, pos) ==
    IF IsLazy(fargs)
    THEN IF buf # <<>>
         THEN FindSet("yielding", "none", end, pos, Tail(buf), <<>>,
                      Append(yielded, <<Head(buf)>>), 1)
         ELSE LET m == NextMatch(pos, fargs.start, end)
              IN IF m = 0
                 THEN FindSet("done", "none", end, Len(fs) + 1, <<>>, <<>>, yielded, 1)
                 ELSE FindSet("yielding", "none", end, m + 1, <<>>, <<>>,
                              Append(yielded, <<m>>), 1)
    ELSE LET files == buf \o RestMatches(pos, fargs.start, end)
             q == PrepareReturn(files, fargs.sort, fargs.bundle)
         IN IF q # <<>>
            THEN FindSet("yielding", "none", end, Len(fs) + 1, <<>>, Tail(q),
                         Append(yielded, Head(q)), 1)
            ELSE IF fargs.bundle.kind = "str"
            \* pd.Series([], []) has no DatetimeIndex: whether pd.Grouper
            \* accepts it depends on the installed pandas
            THEN \E e \in {"none", "TypeError"} :
                     FindSet("done", e, end, Len(fs) + 1, <<>>, <<>>, yielded, 1)
            ELSE FindSet("done", "none", end, Len(fs) + 1, <<>>, <<>>, yielded, 1)

\* multi-file branch of find: file_finder, the emptiness probe through
\* itertools.tee and the first yield
FindMultiFile(end) ==
    IF ~fargs.no_files_error THEN FindPrepare(end, <<>>, 1)
    ELSE LET m == NextMatch(1, fargs.start, end)
         IN IF m = 0 THEN FindRaise("NoFilesError", 1)
            ELSE FindPrepare(end, <<m>>, m + 1)

\* the first next() on the generator: find runs from its first line to its
\* first yield, its return or its exception
FindBegin ==
    /\ fpc = "created"
    /\ IF fargs.end = DatetimeMin THEN FindRaise("OverflowError", 0)
       ELSE LET end == HalfOpenEnd(fargs.end)
            IN IF InvalidWindow(fargs.start, end) THEN FindRaise("ValueError", 0)
               ELSE IF single_file THEN FindSingleFile(end)
               ELSE FindMultiFile(end)

\* a later next() on the generator: find runs on to its next yield or its end
FindResume ==
    /\ fpc \in {"single", "yielding"}
    /\ IF fpc = "single"
       THEN FindSet("done", "none", fend, ffPos, teeBuf, out, yielded, listed)
       ELSE IF IsLazy(fargs)
       THEN IF teeBuf # <<>>
            THEN FindSet("yielding", "none", fend, ffPos, Tail(teeBuf), <<>>,
                         Append(yielded, <<Head(teeBuf)>>), listed)
            ELSE LET m == NextMatch(ffPos, fargs.start, fend)
                 IN IF m = 0
                    THEN FindSet("done", "none", fend, Len(fs) + 1, <<>>, <<>>,
                                 yielded, listed)
                    ELSE FindSet("yielding", "none", fend, m + 1, <<>>, <<>>,
                                 Append(yielded, <<m>>), listed)
       ELSE IF out # <<>>
       THEN FindSet("yielding", "none", fend, ffPos, teeBuf, Tail(out),
                    Append(yielded, Head(out)), listed)
       ELSE FindSet("done", "none", fend, ffPos, teeBuf, out, yielded, listed)

\* the caller drops the finished generator
FindClose ==
    /\ fpc = "done"
    /\ fpc' = "closed"
    /\ fargs' = NoArgs
    /\ ferr' = "none"
    /\ fend' = DatetimeMax
    /\ ffPos' = 1
    /\ teeBuf' = <<>>
    /\ out' = <<>>
    /\ yielded' = <<>>
    /\ listed' = 0
    /\ UNCHANGED <<dsVars, mapVars, restVars>>

\* ------------------------------------------------------------ map / imap
MapIdle ==
    /\ inputs = <<>>
    /\ nworkers = 1
    /\ mode = "map"
    /\ ipc = "idle"
    /\ submitted = 0
    /\ task = <<>>
    /\ waitFor = 0
    /\ outputs = <<>>
    /\ merr = "none"
    /\ maxInFlight = 0
    /\ func = [kind |-> "value", on |-> 0]
    /\ output = FALSE
    /\ written = <<>>
    /\ pool = "none"

Max(a, b) == IF a > b THEN a ELSE b

\* the user functions: one that returns a value for every file, and the
\* ones that return None for, or raise on, one file
FuncChoices ==
    {[kind |-> "value", on |-> 0]}
        \cup {[kind |-> k, on |-> f] : k \in {"None", "raise"}, f \in 1..MaxFiles}

\* return_value = func(*args, **kwargs): "value" stands for the value func
\* computes from the file, "None" for None, "raise" for an exception
func_return(f, file_info) == IF f.on = file_info THEN f.kind ELSE "value"

\* _call_map_function without return_info: what the task reports for the
\* file; an exception of func leaves the wrapper at once
call_map_function(file_info, f, sink) ==
    LET return_value == func_return(f, file_info)
    IN [func_of |-> file_info,
        value |-> IF return_value = "raise" THEN "raised"
                  ELSE IF ~sink THEN return_value
                  ELSE IF return_value = "None" THEN "False"
                  ELSE "True"]

\* output.generate_filename(file_info.times, fill=file_info.attr): the name
\* rendered from the times and attributes of the input file
generate_filename(file_info) == [rendered_from |-> file_info]

\* _call_map_function, the part after the call of func: with an output and
\* a return value other than None the value is written to the new filename
WriteOutputAlways(files, file_info, f, sink) ==
    IF sink /\ func_return(f, file_info) # "raise"
    THEN Append(files, [name |-> generate_filename(file_info), data |-> file_info])
    ELSE files
WriteOutput(files, file_info, f, sink) ==
    IF sink /\ func_return(f, file_info) = "value"
    THEN Append(files, [name |-> generate_filename(file_info), data |-> file_info])
    ELSE files

NoResult == [func_of |-> 0, value |-> "pending"]

\* AsyncResult.get() / MapResult.get(): re-raises the exception of the task
GetRaisesNever(result) == FALSE
GetRaises(result) == result.value = "raised"

\* pool.apply_async(self._call_map_function, args=(func_args, )): the task
\* joins the queue of the pool
apply_async(tasks, func_args) ==
    Append(tasks, [st |-> "queued", arg |-> func_args, result |-> NoResult])

RECURSIVE ApplyAll(_, _)
ApplyAll(tasks, args) ==
    IF args = <<>> THEN tasks ELSE ApplyAll(apply_async(tasks, Head(args)), Tail(args))

Running == {i \in 1..Len(task) : task[i].st = "running"}
Queued == {i \in 1..Len(task) : task[i].st = "queued"}

\* imap, loop body: pre_loaded = pool.apply_async(...) before the yield
LoopSubmitSkipped(tasks, func_args) == tasks
LoopSubmit(tasks, func_args) == apply_async(tasks, func_args)

\* imap, loop body: yield yield_this.get()
LoopGetsPreLoaded(yield_this, pre_loaded) == pre_loaded
LoopGets(yield_this, pre_loaded) == yield_this

\* the caller calls map or imap with files=inputs, max_workers=nworkers,
\* func and output; map runs _configure_map_pool_and_worker_args, which
\* creates the pool, and pool.map hands every element to the pool; imap
\* only creates its generator
DispatchCall ==
    /\ ipc = "idle"
    /\ \E in \in SeqsUpTo(1..MaxFiles, MaxInputs), w \in 1..MaxWorkers,
          m \in {"map", "imap"}, f \in FuncChoices, o \in BOOLEAN :
        /\ inputs' = in
        /\ nworkers' = w
        /\ mode' = m
        /\ func' = f
        /\ output' = o
        /\ IF m = "map"
           THEN /\ ipc' = "map_wait"
                /\ task' = ApplyAll(<<>>, in)
                /\ submitted' = Len(in)
                /\ pool' = "open"
           ELSE /\ ipc' = "created"
                /\ task' = <<>>
                /\ submitted' = 0
                /\ pool' = pool
    /\ UNCHANGED <<waitFor, outputs, merr, maxInFlight, written, dsVars, findVars, restVars>>

\* a free worker of the pool takes the oldest queued task
WorkerStart ==
    /\ Queued # {}
    /\ Cardinality(Running) < nworkers
    /\ LET i == CHOOSE q \in Queued : \A r \in Queued : q <= r
       IN task' = [task EXCEPT ![i].st = "running"]
    /\ UNCHANGED <<callVars, ipc, submitted, waitFor, outputs, merr, maxInFlight,
                   written, pool, dsVars, findVars, restVars>>

\* a worker finishes its task: _call_map_function has called func and, with
\* an output, written the return value; tasks finish in any order
WorkerFinish ==
    /\ \E i \in Running :
        /\ task' = [task EXCEPT ![i].st = "done",
                                ![i].result = call_map_function(task[i].arg, func, output)]
        /\ written' = WriteOutput(written, task[i].arg, func, output)
    /\ UNCHANGED <<callVars, ipc, submitted, waitFor, outputs, merr, maxInFlight,
                   pool, dsVars, findVars, restVars>>

Failed == {i \in 1..Len(task) : task[i].st = "done" /\ GetRaises(task[i].result)}

\* pool.map returns the list of results once every task is done; once a
\* task has failed it raises the exception of that task instead (at once or
\* after the other tasks, depending on the version of multiprocessing)
MapReturn ==
    /\ ipc = "map_wait"
    /\ IF Failed # {}
       THEN /\ merr' = "FuncError"
            /\ outputs' = outputs
       ELSE /\ \A i \in 1..Len(task) : task[i].st = "done"
            /\ outputs' = [i \in 1..Len(task) |-> task[i].result]
            /\ merr' = merr
    /\ ipc' = "done"
    /\ UNCHANGED <<callVars, submitted, task, waitFor, maxInFlight, written, pool,
                   dsVars, findVars, restVars>>

\* imap from the head of its for loop to the next .get(): either the loop
\* body up to yield_this.get() or, after the loop, pre_loaded.get()
ImapLoop(tasks) ==
    LET pulled == Len(tasks)
    IN IF pulled < Len(inputs)
       THEN LET tasks2 == LoopSubmit(tasks, inputs[pulled + 1])
            IN /\ task' = tasks2
               /\ submitted' = Len(tasks2)
               /\ waitFor' = LoopGets(pulled, Len(tasks2))
               /\ ipc' = "get_loop"
               /\ maxInFlight' = Max(maxInFlight, Len(tasks2) - Len(outputs))
       ELSE /\ task' = tasks
            /\ submitted' = Len(tasks)
            /\ waitFor' = Len(tasks)
            /\ ipc' = "get_flush"
            /\ maxInFlight' = Max(maxInFlight, Len(tasks) - Len(outputs))

\* the first next() on the imap generator: the pool is configured and the
\* first file preloaded; next() on an empty queue raises StopIteration
\* inside the generator, which ends it silently (Python 3.6) or becomes a
\* RuntimeError (Python 3.7 and later)
ImapBegin ==
    /\ ipc = "created"
    /\ pool' = "open"
    /\ IF inputs = <<>>
       THEN /\ ipc' = "done"
            /\ merr' \in {"none", "RuntimeError"}
            /\ UNCHANGED <<task, submitted, waitFor, maxInFlight>>
       ELSE /\ ImapLoop(apply_async(task, inputs[1]))
            /\ merr' = merr
    /\ UNCHANGED <<callVars, outputs, written, dsVars, findVars, restVars>>

\* .get() returns once the task is done and imap yields the result, or
\* .get() raises the exception of the task and ends the generator
ImapYield ==
    /\ ipc \in {"get_loop", "get_flush"}
    /\ waitFor \in 1..Len(task)
    /\ task[waitFor].st = "done"
    /\ IF GetRaises(task[waitFor].result)
       THEN /\ merr' = "FuncError"
            /\ ipc' = "done"
            /\ outputs' = outputs
       ELSE /\ outputs' = Append(outputs, task[waitFor].result)
            /\ ipc' = IF ipc = "get_loop" THEN "yielded_loop" ELSE "yielded_flush"
            /\ merr' = merr
    /\ UNCHANGED <<callVars, submitted, task, waitFor, maxInFlight, written, pool,
                   dsVars, findVars, restVars>>

\* a later next() on the imap generator
ImapResume ==
    \/ /\ ipc = "yielded_loop"
       /\ ImapLoop(task)
       /\ UNCHANGED <<callVars, outputs, merr, written, pool, dsVars, findVars, restVars>>
    \/ /\ ipc = "yielded_flush"
       /\ ipc' = "done"
       /\ UNCHANGED <<callVars, submitted, task, waitFor, outputs, merr, maxInFlight,
                      written, pool, dsVars, findVars, restVars>>

\* the caller stops iterating and closes (or drops) the imap generator
\* while it is suspended at a yield; nothing in imap runs on close
ImapClose ==
    /\ ipc \in {"yielded_loop", "yielded_flush"}
    /\ ipc' = "closed"
    /\ UNCHANGED <<callVars, submitted, task, waitFor, outputs, merr, maxInFlight,
                   written, pool, dsVars, findVars, restVars>>

\* ------------------------------------------------------------ info cache
\* what the filename or the handler gives for a file of a multi-file
\* dataset: a start and an end, or a start only (the files here all start
\* at the same time)
RawInfos ==
    {<<DatetimeMin + 1, DatetimeMin + 1 + d>> : d \in 0..MaxDur}
        \cup {<<DatetimeMin + 1, None>>}

\* get_info, the part behind the cache test: the times of a file that is
\* not in the cache; a file with a start only ends after the timedelta of
\* the dataset, or at its start when there is none
compute_info(path) ==
    IF single_file THEN time_coverage
    ELSE LET times == fs[path]
         IN IF times[2] # None THEN times
            ELSE IF time_coverage # None THEN <<times[1], times[1] + time_coverage>>
            ELSE <<times[1], times[1]>>

\* if file_info.path in self.info_cache
CacheHitNever(cache, path) == FALSE
CacheHit(cache, path) == path \in DOMAIN cache

\* self.info_cache[info.path] = info
CachePut(cache, path, times) ==
    [q \in DOMAIN cache \cup {path} |-> IF q = path THEN times ELSE cache[q]]

\* the time_coverage setter: self.info_cache = {}
CacheKept(cache) == cache
CacheReset(cache) == <<>>

CachePaths == IF single_file THEN {0} ELSE 1..Len(fs)

\* a file that does not exist, and an existing file with the given JSON
\* records, complete (parseable) or not
Missing == [exists |-> FALSE, recs |-> <<>>, complete |-> FALSE]
File(recs, complete) == [exists |-> TRUE, recs |-> recs, complete |-> complete]

CacheIdle ==
    /\ info_cache = <<>>
    /\ returned = <<>>
    /\ disk = [name \in {"cache", "backup"} |-> Missing]
    /\ cpc = "idle"

\* find (or find_closest, copy) calls get_info for a file
GetInfo ==
    /\ Len(returned) < MaxGets
    /\ cpc \in {"idle", "loaded", "load_warned", "load_absent", "saved"}
    /\ cpc' = "idle"
    /\ disk' = disk
    /\ \E path \in CachePaths :
        IF CacheHit(info_cache, path)
        THEN /\ returned' = Append(returned, [path |-> path, times |-> info_cache[path],
                                               cached |-> TRUE])
             /\ info_cache' = info_cache
        ELSE /\ returned' = Append(returned, [path |-> path, times |-> compute_info(path),
                                               cached |-> FALSE])
             /\ info_cache' = CachePut(info_cache, path, compute_info(path))
    /\ UNCHANGED <<single_file, path_exists, time_coverage, fs, exclude, findVars, mapVars, restVars>>

\* between two searches a file of the dataset is replaced by one with
\* other times (what the handler would now retrieve for it)
FileRewritten ==
    /\ ~single_file
    /\ \E path \in 1..Len(fs), times \in RawInfos :
        /\ times # fs[path]
        /\ fs' = [fs EXCEPT ![path] = times]
    /\ UNCHANGED <<single_file, path_exists, time_coverage, exclude, cacheVars,
                   findVars, mapVars, restVars>>

\* dataset.time_coverage = value: a single-file dataset takes the given
\* coverage, or the default one for None; a multi-file dataset takes the
\* given timedelta or None
SetTimeCoverage ==
    /\ IF single_file
       THEN time_coverage' \in FileIntervals \cup {DefaultCoverage}
       ELSE time_coverage' \in (0..MaxDur) \cup {None}
    /\ info_cache' = CacheReset(info_cache)
    /\ UNCHANGED <<single_file, path_exists, fs, exclude, returned, disk, cpc,
                   findVars, mapVars, restVars>>

\* FileInfo.to_json_dict / FileInfo.from_json_dict: the record of the
\* cache file for a path and its times, and back
to_json_dict(path, times) == [json_path |-> path, json_times |-> times]
from_json_dict(json_dict) == [path |-> json_dict.json_path, times |-> json_dict.json_times]

\* [info.to_json_dict() for info in self.info_cache.values()], here in the
\* order of the paths
RECURSIVE JsonList(_, _)
JsonList(cache, paths) ==
    IF paths = {} THEN <<>>
    ELSE LET path == CHOOSE q \in paths : \A r \in paths : q <= r
         IN <<to_json_dict(path, cache[path])>> \o JsonList(cache, paths \ {path})

\* self.info_cache.update(info_cache) with the records of the file
CacheUpdate(cache, recs) ==
    LET loaded == {from_json_dict(recs[i]) : i \in 1..Len(recs)}
        paths == {info.path : info \in loaded}
    IN [q \in DOMAIN cache \cup paths |->
           IF q \in paths THEN (CHOOSE info \in loaded : info.path = q).times
           ELSE cache[q]]

\* load_info_cache, except Exception: the cache after a file that could
\* not be parsed
CacheAfterFailedLoad(cache) == cache

\* save_info_cache: the file that is opened for writing
SaveTargetDirect == "cache"
SaveTarget == "backup"

CacheOpIdle == cpc \in {"idle", "loaded", "load_warned", "load_absent", "saved"}

\* load_info_cache(filename): a parseable file updates the cache, a file
\* that cannot be parsed gives a warning, a missing file nothing
LoadInfoCache ==
    /\ CacheOpIdle
    /\ IF ~disk["cache"].exists
       THEN /\ cpc' = "load_absent"
            /\ info_cache' = info_cache
       ELSE IF disk["cache"].complete
       THEN /\ cpc' = "loaded"
            /\ info_cache' = CacheUpdate(info_cache, disk["cache"].recs)
       ELSE /\ cpc' = "load_warned"
            /\ info_cache' = CacheAfterFailedLoad(info_cache)
    /\ UNCHANGED <<single_file, path_exists, time_coverage, fs, exclude, returned, disk,
                   findVars, mapVars, restVars>>

\* save_info_cache(filename): open(filename + ".backup", "w")
SaveOpen ==
    /\ CacheOpIdle
    /\ cpc' = "save_opened"
    /\ disk' = [disk EXCEPT ![SaveTarget] = File(<<>>, FALSE)]
    /\ UNCHANGED <<single_file, path_exists, time_coverage, fs, exclude, info_cache,
                   returned, findVars, mapVars, restVars>>

\* json.dump writes the next record
SaveWrite ==
    /\ cpc = "save_opened"
    /\ LET info_cache_list == JsonList(info_cache, DOMAIN info_cache)
           n == Len(disk[SaveTarget].recs)
       IN /\ n < Len(info_cache_list)
          /\ disk' = [disk EXCEPT ![SaveTarget].recs = Append(@, info_cache_list[n + 1])]
    /\ UNCHANGED <<single_file, path_exists, time_coverage, fs, exclude, info_cache,
                   returned, cpc, findVars, mapVars, restVars>>

\* json.dump has written the whole list and the with block closes the file
SaveClose ==
    /\ cpc = "save_opened"
    /\ Len(disk[SaveTarget].recs) = Cardinality(DOMAIN info_cache)
    /\ disk' = [disk EXCEPT ![SaveTarget].complete = TRUE]
    /\ cpc' = "save_closed"
    /\ UNCHANGED <<single_file, path_exists, time_coverage, fs, exclude, info_cache,
                   returned, findVars, mapVars, restVars>>

\* shutil.move(filename + ".backup", filename): a rename within one
\* directory
SaveMove ==
    /\ cpc = "save_closed"
    /\ disk' = IF SaveTarget = "cache" THEN disk
                ELSE [disk EXCEPT !["cache"] = disk[SaveTarget], ![SaveTarget] = Missing]
    /\ cpc' = "saved"
    /\ UNCHANGED <<single_file, path_exists, time_coverage, fs, exclude, info_cache,
                   returned, findVars, mapVars, restVars>>

\* the process dies while save_info_cache runs
Crash ==
    /\ cpc \in {"save_opened", "save_closed"}
    /\ cpc' = "crashed"
    /\ UNCHANGED <<single_file, path_exists, time_coverage, fs, exclude, info_cache,
                   returned, disk, findVars, mapVars, restVars>>

\* ------------------------------------------------- _retrieve_time_coverage
\* the temporal placeholders, from the lowest resolution to the highest
\* (the order of Dataset._temporal_resolution); field i of a date counts
\* from 0 to Radix - 1
Fields == <<"year", "month", "day", "hour", "minute">>
FieldIds == 1..Len(Fields)
Digits == 0..(Radix - 1)

RECURSIVE Power(_, _)
Power(b, e) == IF e = 0 THEN 1 ELSE b * Power(b, e - 1)

\* Dataset._temporal_resolution[placeholder], in minutes
Resolution(i) == Power(Radix, Len(Fields) - i)

\* one more than datetime.max
DateLimit == Power(Radix, Len(Fields))

\* a filename of a dataset whose path has the start placeholders S and the
\* end placeholders E: the captured values sv and ev
NoName == [S |-> {}, E |-> {}, sv |-> <<>>, ev |-> <<>>]
NotRetrieved == [status |-> "none", start |-> None, end |-> None]

\* _get_superior_time_resolution(end_time_placeholders): the resolution
\* next below the lowest one among the placeholders, None when there is no
\* placeholder or the lowest is the year
get_superior_time_resolution(placeholders) ==
    IF placeholders = {} THEN None
    ELSE LET highest == CHOOSE i \in placeholders : \A j \in placeholders : i <= j
         IN IF highest = 1 THEN None ELSE Resolution(highest - 1)

\* datetime(**args) needs year, month and day
DatetimeArgsOk(args) == {1, 2, 3} \subseteq DOMAIN args

RECURSIVE DatetimeSum(_, _)
DatetimeSum(args, ids) ==
    IF ids = {} THEN 0
    ELSE LET i == CHOOSE j \in ids : TRUE
         IN args[i] * Resolution(i) + DatetimeSum(args, ids \ {i})

\* datetime(**args): the fields that are not given are 0
MakeDatetime(args) == DatetimeSum(args, DOMAIN args)

\* {**start_args, **end_args}
MergeArgs(start_args, end_args) ==
    [i \in DOMAIN start_args \cup DOMAIN end_args |->
        IF i \in DOMAIN end_args THEN end_args[i] ELSE start_args[i]]

\* _retrieve_time_coverage(filled_placeholder)
retrieve_time_coverage(name) ==
    LET failed(e) == [status |-> e, start |-> None, end |-> None]
        end_args == MergeArgs(name.sv, name.ev)
        start_date == IF name.S # {} THEN MakeDatetime(name.sv) ELSE None
        end_date == MakeDatetime(end_args)
        superior == get_superior_time_resolution(name.E)
    IN IF name.S = {} /\ name.E = {} THEN [status |-> "None", start |-> None, end |-> None]
       ELSE IF name.S # {} /\ ~DatetimeArgsOk(name.sv) THEN failed("TypeError")
       ELSE IF name.E = {} THEN [status |-> "ok", start |-> start_date, end |-> None]
       ELSE IF ~DatetimeArgsOk(end_args) THEN failed("TypeError")
       ELSE IF name.S = {} THEN failed("TypeError")
       ELSE IF end_date >= start_date
       THEN [status |-> "ok", start |-> start_date, end |-> end_date]
       ELSE IF superior = None THEN failed("TypeError")
       ELSE IF end_date + superior >= DateLimit THEN failed("OverflowError")
       ELSE [status |-> "ok", start |-> start_date, end |-> end_date + superior]

\* get_info parses a filename and retrieves its time coverage
RetrieveTimeCoverage ==
    /\ coverage.status = "none"
    /\ coverage' = retrieve_time_coverage(filename)
    /\ UNCHANGED <<dsVars, findVars, mapVars, closest, filename, template, start_end, phVars, ovVars, linkVars, mg, th, walk, pathst>>

\* no call of generate_filename
NoTemplate == [S |-> {}, E |-> {}]
NoTimes == <<None, None>>

\* "{:02d}".format(time.hour) and the like: the value of a field of a time
FieldOf(t, i) == (t \div Resolution(i)) % Radix

\* generate_filename(times, template): every start placeholder is filled
\* from the start time, every end placeholder from the end time
generate_name(tmpl, tt) ==
    [S |-> tmpl.S, E |-> tmpl.E,
     sv |-> [i \in tmpl.S |-> FieldOf(tt[1], i)],
     ev |-> [i \in tmpl.E |-> FieldOf(tt[2], i)]]

GenerateFilename ==
    /\ start_end # NoTimes
    /\ filename = NoName
    /\ coverage.status = "none"
    /\ filename' = generate_name(template, start_end)
    /\ UNCHANGED <<dsVars, findVars, mapVars, closest, coverage, template, start_end, phVars, ovVars, linkVars, mg, th, walk, pathst>>

\* parse_filename and _retrieve_time_coverage on the generated name
ParseGenerated ==
    /\ start_end # NoTimes
    /\ filename # NoName
    /\ RetrieveTimeCoverage

\* ------------------------------------------------------ user placeholders
DatasetIds == 1..MaxDatasets
\* the user placeholder that paths and templates use
UserNames == {"satellite"}
\* the default regex of a user placeholder (path setter) and regexes a user
\* may give; the first two hold a character of Dataset._special_chars
Wildcard == ".+?"
Regexes == {Wildcard, "[0-9]+", "noaa"}
HasSpecialChars(text) == text \in {Wildcard, "[0-9]+"}
\* the values a caller may give in fill
FillValues == {"metop"}

\* a dictionary with keys from keyset and values from values
Dicts(keyset, values) == UNION {[keys -> values] : keys \in SUBSET keyset}
\* {**a, **b}
DictUpdate(a, b) ==
    [k \in DOMAIN a \cup DOMAIN b |-> IF k \in DOMAIN b THEN b[k] ELSE a[k]]

NotMade == [made |-> FALSE, path_placeholders |-> {}, path_regex |-> <<>>]
NoPhCall == [op |-> "none", dataset |-> 0, result |-> "none", values |-> <<>>,
             placeholders |-> {}, fill |-> <<>>, own_path |-> FALSE]
PhIdle ==
    /\ user_placeholder = <<>>
    /\ datasets = [d \in DatasetIds |-> NotMade]
    /\ ph_call = NoPhCall

\* _fill_placeholders_with_regexes(self.path): the regex of the path is made
\* of the regexes the placeholders of the path have at this moment
fill_placeholders_with_regexes(placeholders, placeholder) ==
    [p \in placeholders |-> placeholder[p]]

\* Dataset(path): the path setter gives every user placeholder of the path
\* the default regex and compiles the path regex
Construct ==
    \E d \in DatasetIds, placeholders \in SUBSET UserNames :
        /\ ~datasets[d].made
        /\ user_placeholder' =
              DictUpdate(user_placeholder, [p \in placeholders |-> Wildcard])
        /\ datasets' = [datasets EXCEPT ![d] =
              [made |-> TRUE, path_placeholders |-> placeholders,
               path_regex |-> fill_placeholders_with_regexes(placeholders,
                                                             user_placeholder')]]
        /\ ph_call' = [NoPhCall EXCEPT !.op = "construct", !.dataset = d]
        /\ UNCHANGED <<dsVars, findVars, mapVars, closest, nameVars, ovVars, linkVars, mg, th, walk, pathst>>

SetPlaceholders ==
    \E d \in DatasetIds, placeholders \in Dicts(UserNames, Regexes) :
        /\ datasets[d].made
        /\ user_placeholder' = DictUpdate(user_placeholder, placeholders)
        /\ datasets' = [datasets EXCEPT ![d].path_regex =
              fill_placeholders_with_regexes(datasets[d].path_placeholders,
                                             user_placeholder')]
        /\ ph_call' = [NoPhCall EXCEPT !.op = "set", !.dataset = d]
        /\ UNCHANGED <<dsVars, findVars, mapVars, closest, nameVars, ovVars, linkVars, mg, th, walk, pathst>>

\* generate_filename: the fills the caller gives nothing for
NoDefaultFill(d) == <<>>
DefaultFill(d) == user_placeholder

\* generate_filename(times, template, fill), the user placeholders: the
\* names of the template are looked up in {**default_fill, **fill}
generate_filename_user(d, placeholders, fill) ==
    LET all_fill == DictUpdate(DefaultFill(d), fill)
    IN IF ~(placeholders \subseteq DOMAIN all_fill)
       THEN [result |-> "UnknownPlaceholderError", values |-> <<>>]
       ELSE IF \E p \in placeholders : HasSpecialChars(all_fill[p])
       THEN [result |-> "UnfilledPlaceholderError", values |-> <<>>]
       ELSE [result |-> "filename", values |-> [p \in placeholders |-> all_fill[p]]]

GenerateFilenameUser ==
    \E d \in DatasetIds, own_path \in BOOLEAN, tmpl \in SUBSET UserNames,
       fill \in Dicts(UserNames, FillValues) :
        /\ datasets[d].made
        /\ own_path => tmpl = datasets[d].path_placeholders
        /\ LET r == generate_filename_user(d, tmpl, fill)
           IN ph_call' = [op |-> "generate", dataset |-> d, result |-> r.result,
                          values |-> r.values, placeholders |-> tmpl,
                          fill |-> fill, own_path |-> own_path]
        /\ UNCHANGED <<dsVars, findVars, mapVars, closest, nameVars,
                       user_placeholder, datasets, ovVars, linkVars, mg, th, walk, pathst>>

\* --------------------------------------------------------- overlaps_with
\* the times of the files of the two datasets: up to MaxDur long in this
\* dataset, points in other_dataset
OverlapTime == DatetimeMin..(DatetimeMax + 1)
PrimaryIntervals ==
    {iv \in OverlapTime \X OverlapTime : iv[1] <= iv[2] /\ iv[2] - iv[1] <= MaxDur}
SecondaryIntervals == {<<t, t>> : t \in OverlapTime}

\* list(dataset.find(start, end)) on a multi-file dataset without filters
\* and exclusions: the files whose times overlap [start, end - 1us], sorted
\* by their start time; NoFilesError when there is none
RECURSIVE SortedByStart(_, _)
SortedByStart(files, todo) ==
    IF todo = {} THEN <<>>
    ELSE LET first == CHOOSE i \in todo : \A j \in todo :
                         \/ files[i][1] < files[j][1]
                         \/ (files[i][1] = files[j][1] /\ i <= j)
         IN <<first>> \o SortedByStart(files, todo \ {first})
find_list(files, start, end) ==
    LET last == HalfOpenEnd(end)
        found == SortedByStart(files,
                    {i \in 1..Len(files) : interval_overlaps(files[i], <<start, last>>)})
    IN IF InvalidWindow(start, last) THEN [err |-> "ValueError", files |-> <<>>]
       ELSE IF found = <<>> THEN [err |-> "NoFilesError", files |-> <<>>]
       ELSE [err |-> "none", files |-> found]

\* times2[:, 0] -= max_interval; times2[:, 1] += max_interval
Widened(times, max_interval) ==
    IF max_interval = None THEN times
    ELSE <<times[1] - max_interval, times[2] + max_interval>>

\* IntervalTree(times2).query(times1), sorted: for every interval of times1
\* the indices of the intervals of times2 that overlap it
TreeQuery(times1, times2) ==
    [i \in 1..Len(times1) |->
        SortedByStart([j \in 1..Len(times2) |-> <<j, j>>],
                      {j \in 1..Len(times2) : interval_overlaps(times2[j], times1[i])})]

NoOverlapsCall == [pc |-> "idle", start |-> DatetimeMin, end |-> DatetimeMin,
                   max_interval |-> None, err |-> "none",
                   found1 |-> <<>>, found2 |-> <<>>, results |-> <<>>, yielded |-> <<>>]
OvIdle == ov = NoOverlapsCall

\* the caller creates the generator: no line of overlaps_with has run yet
OverlapsCall ==
    /\ ov.pc = "idle"
    /\ \E end \in (DatetimeMin + 2)..(DatetimeMax + 1),
          max_interval \in {None} \cup 1..MaxInterval :
         ov' = [NoOverlapsCall EXCEPT !.pc = "created", !.start = DatetimeMin + 1,
                                      !.end = end, !.max_interval = max_interval]
    /\ UNCHANGED <<dsVars, findVars, mapVars, closest, nameVars, phVars, files1, files2, linkVars, mg, th, walk, pathst>>

\* the first next(): the two searches, the tree and the query, up to the
\* first yield, the end or the exception of a search
OverlapsBegin ==
    /\ ov.pc = "created"
    /\ LET start == IF ov.max_interval = None THEN ov.start
                    ELSE ov.start - ov.max_interval
           end == IF ov.max_interval = None THEN ov.end
                  ELSE ov.end + ov.max_interval
           found1 == find_list(files1, start, end)
           found2 == find_list(files2, start, end)
           times1 == [i \in 1..Len(found1.files) |-> files1[found1.files[i]]]
           times2 == [j \in 1..Len(found2.files) |->
                         Widened(files2[found2.files[j]], ov.max_interval)]
           results == TreeQuery(times1, times2)
       IN IF found1.err # "none"
          THEN ov' = [ov EXCEPT !.pc = "done", !.err = found1.err]
          ELSE IF found2.err # "none"
          THEN ov' = [ov EXCEPT !.pc = "done", !.err = found2.err,
                                !.found1 = found1.files]
          ELSE ov' = [ov EXCEPT !.pc = "yielding", !.found1 = found1.files,
                                !.found2 = found2.files, !.results = results,
                                !.yielded = <<[file |-> found1.files[1],
                                   overlapping |-> [k \in 1..Len(results[1]) |->
                                       found2.files[results[1][k]]]]>>]
    /\ UNCHANGED <<dsVars, findVars, mapVars, closest, nameVars, phVars, files1, files2, linkVars, mg, th, walk, pathst>>

\* a later next(): the next pair, or the end of the loop
OverlapsResume ==
    /\ ov.pc = "yielding"
    /\ LET i == Len(ov.yielded) + 1
       IN IF i > Len(ov.found1)
          THEN ov' = [ov EXCEPT !.pc = "done"]
          ELSE ov' = [ov EXCEPT !.yielded = Append(@,
                         [file |-> ov.found1[i],
                          overlapping |-> [k \in 1..Len(ov.results[i]) |->
                              ov.found2[ov.results[i][k]]]])]
    /\ UNCHANGED <<dsVars, findVars, mapVars, closest, nameVars, phVars, files1, files2, linkVars, mg, th, walk, pathst>>

\* ---------------------------------------------------------- link and read
\* the names datasets have: the string "target" (0) or a name of their own
TargetName == 0
DatasetNames == {TargetName} \cup DatasetIds
NoRead == [dataset |-> 0, result |-> "none", handler_reads |-> <<>>]
LinkIdle ==
    /\ names = [d \in DatasetIds |-> d]
    /\ link = [d \in DatasetIds |-> <<>>]
    /\ rd = NoRead

\* self._link[other_dataset.name] = {"target": other_dataset, "linker": linker}
Link ==
    \E d \in DatasetIds, other_dataset \in DatasetIds :
        /\ link' = [link EXCEPT ![d] =
              DictUpdate(@, [k \in {names[other_dataset]} |-> other_dataset])]
        /\ rd' = NoRead
        /\ UNCHANGED <<dsVars, findVars, mapVars, closest, nameVars, phVars, ovVars, names, mg, th, walk, pathst>>

\* self._link["target"].read(other_file) for the first link of the loop:
\* the key "target" is looked up among the names of the linked datasets,
\* and what is found under it is the dictionary of that link
LinkedRead(d) ==
    IF TargetName \in DOMAIN link[d] THEN "AttributeError" ELSE "KeyError"

\* read(file_info) of dataset d: the handler reads the file, then the files
\* of the linked datasets are read and merged
Read ==
    \E d \in DatasetIds :
        /\ rd' = [dataset |-> d,
                  result |-> IF DOMAIN link[d] = {} THEN "data" ELSE LinkedRead(d),
                  handler_reads |-> <<d>>]
        /\ UNCHANGED <<dsVars, findVars, mapVars, closest, nameVars, phVars, ovVars,
                       names, link, mg, th, walk, pathst>>

\* ---------------------------------------------------- GroupedArrays.merge
\* the variables an object may hold; the value of a variable tells which
\* object it comes from
VarNames == {"time", "lat"}
NoGroups == <<>>
MainGroup == 0
NoMerge == [objects |-> <<>>, groups |-> NoGroups, overwrite_error |-> FALSE,
            result |-> "none", merged_data |-> <<>>]
\* the calls of merge: up to MaxObjects objects, no groups or one group
\* for each object
MergeCalls ==
    UNION {[objects : [1..n -> SUBSET VarNames],
            groups : {NoGroups} \cup [1..n -> 1..MaxObjects],
            overwrite_error : BOOLEAN,
            result : {"none"}, merged_data : {<<>>}] : n \in 1..MaxObjects}

\* the loop of merge from object i on; inserted is the set the variables
\* are looked up in, todo the variables of object i still to come
RECURSIVE MergeLoop(_, _, _, _, _)
MergeLoop(call, i, todo, inserted, merged_data) ==
    IF i > Len(call.objects) THEN [result |-> "merged", merged_data |-> merged_data]
    ELSE IF todo = {}
    THEN MergeLoop(call, i + 1,
                   IF i + 1 > Len(call.objects) THEN {} ELSE call.objects[i + 1],
                   inserted, merged_data)
    ELSE LET var == CHOOSE v \in todo : TRUE
             group == IF call.groups = NoGroups THEN MainGroup ELSE call.groups[i]
         IN IF call.overwrite_error /\ var \in inserted
            THEN [result |-> "KeyError", merged_data |-> <<>>]
            ELSE MergeLoop(call, i, todo \ {var}, inserted,
                           DictUpdate(merged_data, [k \in {<<group, var>>} |-> i]))

\* merge(objects, groups, overwrite_error): inserted = set() and nothing
\* is ever added to it
merge(call) == MergeLoop(call, 1, call.objects[1], {}, <<>>)

Merge ==
    /\ mg.result = "none"
    /\ mg.objects # <<>>
    /\ mg' = [mg EXCEPT !.result = merge(mg).result,
                        !.merged_data = merge(mg).merged_data]
    /\ UNCHANGED <<dsVars, findVars, mapVars, closest, nameVars, phVars, ovVars, linkVars, th, walk, pathst>>

\* ------------------------------------- _call_map_function in thread workers
\* every task of a thread pool gets the same kwargs dictionary: the keys
\* file_arg_keys[0] (info) and file_arg_keys[1] (content) of it, 0 when the
\* key is not set; a task is "queued", "started", "content_set", "info_set"
\* or "called"
NoKwargs == [info |-> 0, content |-> 0]
NoThreads == [n |-> 0, max_workers |-> 1, on_content |-> FALSE, kwargs |-> NoKwargs,
              pc |-> <<>>, received |-> <<>>]
ThreadCalls ==
    UNION {[n : {n}, max_workers : 1..MaxWorkers, on_content : BOOLEAN,
            kwargs : {NoKwargs}, pc : {[t \in 1..n |-> "queued"]},
            received : {[t \in 1..n |-> NoKwargs]}] : n \in 1..MaxInputs}
ThreadsRunning == {t \in 1..th.n : th.pc[t] \in {"started", "content_set", "info_set"}}

\* a worker of the pool takes the next task
ThreadStart ==
    \E t \in 1..th.n :
        /\ th.pc[t] = "queued"
        /\ \A u \in 1..(t - 1) : th.pc[u] # "queued"
        /\ Cardinality(ThreadsRunning) < th.max_workers
        /\ th' = [th EXCEPT !.pc[t] = "started"]
        /\ UNCHANGED <<dsVars, findVars, mapVars, closest, nameVars, phVars, ovVars,
                       linkVars, mg, walk, pathst>>

\* if on_content: kwargs.update(**{file_arg_keys[1]: file_content})
ThreadSetContent ==
    \E t \in 1..th.n :
        /\ th.pc[t] = "started"
        /\ th.on_content
        /\ th' = [th EXCEPT !.pc[t] = "content_set", !.kwargs.content = t]
        /\ UNCHANGED <<dsVars, findVars, mapVars, closest, nameVars, phVars, ovVars,
                       linkVars, mg, walk, pathst>>

\* kwargs.update(**{file_arg_keys[0]: file_info})
ThreadSetInfo ==
    \E t \in 1..th.n :
        /\ th.pc[t] = (IF th.on_content THEN "content_set" ELSE "started")
        /\ th' = [th EXCEPT !.pc[t] = "info_set", !.kwargs.info = t]
        /\ UNCHANGED <<dsVars, findVars, mapVars, closest, nameVars, phVars, ovVars,
                       linkVars, mg, walk, pathst>>

\* return_value = func(*args, **kwargs): the function gets what kwargs
\* holds at the moment of the call
ThreadCall ==
    \E t \in 1..th.n :
        /\ th.pc[t] = "info_set"
        /\ th' = [th EXCEPT !.pc[t] = "called", !.received[t] = th.kwargs]
        /\ UNCHANGED <<dsVars, findVars, mapVars, closest, nameVars, phVars, ovVars,
                       linkVars, mg, walk, pathst>>

\* ------------------------------------------------------- _get_search_dirs
\* a chunk of the sub directory: a literal name, or a name with the
\* temporal placeholders P (none: user placeholders or wildcards only)
LiteralChunk == [literal |-> TRUE, P |-> {}]
PlaceholderChunk(P) == [literal |-> FALSE, P |-> P]
\* the sub directories of the paths that are searched
SubDirs ==
    {<<PlaceholderChunk({1}), PlaceholderChunk({2}), PlaceholderChunk({3})>>,
     <<PlaceholderChunk({1, 2}), PlaceholderChunk({3})>>,
     <<PlaceholderChunk({1}), PlaceholderChunk({2}), LiteralChunk>>,
     <<PlaceholderChunk({1}), LiteralChunk, PlaceholderChunk({2})>>,
     <<PlaceholderChunk({1, 2, 3}), PlaceholderChunk({})>>}

\* _get_time_resolution(path)[0]: the placeholder with the highest
\* resolution, "year" when the path has no temporal placeholder
HighestResolution(P) == IF P = {} THEN 1 ELSE CHOOSE i \in P : \A j \in P : i >= j

\* the temporal placeholders of a sub directory
RECURSIVE SubDirPlaceholders(_)
SubDirPlaceholders(chunks) ==
    IF chunks = <<>> THEN {} ELSE Head(chunks).P \cup SubDirPlaceholders(Tail(chunks))

\* typhon.utils.time.set_time_resolution: the time with every field behind
\* the resolution set to its first value
set_time_resolution(t, i) == t - (t % Resolution(i))

\* _check_placeholders(attr, start, end) for the directory that the fields
\* attr of the time t name
check_placeholders(attr, t, start, end) ==
    IF 1 \notin attr THEN TRUE
    ELSE IF {1, 2, 3} \subseteq attr
    THEN LET dir_time == MakeDatetime([i \in attr |-> FieldOf(t, i)])
         IN dir_time >= start /\ dir_time <= end
    ELSE FieldOf(t, 1) >= FieldOf(start, 1) /\ FieldOf(t, 1) <= FieldOf(end, 1)

\* the loop of _get_search_dirs from chunk k on, for the directory named
\* by the time t: whether it is among the search directories at the end.
\* joined tells that the directory so far was made by os.path.join with a
\* literal chunk and so has no trailing separator: the next glob then
\* hands out that directory itself, with an empty name that no regex of a
\* chunk matches
RECURSIVE SearchesDir(_, _, _, _, _, _, _)
SearchesDir(chunks, k, attr, joined, t, start, end) ==
    IF k > Len(chunks) THEN TRUE
    ELSE IF chunks[k].literal
    THEN SearchesDir(chunks, k + 1, attr, TRUE, t, start, end)
    ELSE IF joined THEN FALSE
    ELSE LET new_attr == attr \cup chunks[k].P
             resolution == HighestResolution(chunks[k].P)
         IN /\ check_placeholders(new_attr, t,
                                  set_time_resolution(start, resolution),
                                  set_time_resolution(end, resolution))
            /\ SearchesDir(chunks, k + 1, new_attr, FALSE, t, start, end)

NoWalk == [sub_dir |-> <<>>, file |-> <<DatetimeMin, DatetimeMin>>,
           start |-> DatetimeMin, end |-> DatetimeMin, result |-> "none"]
\* a search: a file in the directory its start names, and a window that
\* starts with a day
Walk(c, t, d, a, w) ==
    [sub_dir |-> c, file |-> <<t, t + d>>, start |-> a, end |-> a + w, result |-> "none"]

\* find(start, end) on a multi-file dataset with sub directories and one
\* file: the window, the search directories and the test of the file
WalkFind ==
    /\ walk.result = "none"
    /\ walk.sub_dir # <<>>
    /\ LET start == walk.start
           end == HalfOpenEnd(walk.end)
           resolution == Resolution(HighestResolution(SubDirPlaceholders(walk.sub_dir)))
           dir_start == IF start = DatetimeMin THEN start ELSE start - resolution
       IN walk' = [walk EXCEPT !.result =
             IF dir_start < DatetimeMin THEN "OverflowError"
             ELSE IF /\ SearchesDir(walk.sub_dir, 1, {}, FALSE, walk.file[1],
                                    dir_start, end)
                     /\ interval_overlaps(walk.file, <<start, end>>)
             THEN "found"
             ELSE "NoFilesError"]
    /\ UNCHANGED <<dsVars, findVars, mapVars, closest, nameVars, phVars, ovVars,
                   linkVars, mg, th, pathst>>

\* ------------------------------------------------------------ path setter
\* a path: its base directory, the chunks of its sub directory (none: the
\* directory has no special character), the temporal placeholders of the
\* file name and the end placeholders of the whole path
Paths ==
    [base_dir : {"/in/", "/out/"},
     sub_dir : {<<>>, <<PlaceholderChunk({1})>>, <<PlaceholderChunk({1, 2})>>,
                <<PlaceholderChunk({1}), PlaceholderChunk({2, 3})>>},
     name : {{}, {5}, {4, 5}},
     E : {{}, {5}, {4, 5}}]

\* the attributes __init__ sets before it assigns the path
NoPath == [base_dir |-> "None", sub_dir |-> <<>>, name |-> {}, E |-> {}]
NewDataset ==
    [made |-> FALSE, path |-> NoPath, base_dir |-> "None", sub_dir |-> <<>>,
     sub_dir_chunks |-> <<>>, sub_dir_time_resolution |-> None,
     end_time_superior |-> None, path_regex |-> NoPath, single_file |-> FALSE]

\* the path setter: the attributes of the sub directory are assigned only
\* when the directory of the path has a special character
SubDirAfter(obj, value) == IF value.sub_dir = <<>> THEN obj.sub_dir ELSE value.sub_dir
SubDirResolutionOf(obj, value) ==
    IF value.sub_dir = <<>> THEN obj.sub_dir_time_resolution
    ELSE Resolution(HighestResolution(SubDirPlaceholders(value.sub_dir)))
path_setter(obj, value) ==
    [made |-> TRUE,
     path |-> value,
     base_dir |-> value.base_dir,
     sub_dir |-> SubDirAfter(obj, value),
     sub_dir_chunks |-> SubDirAfter(obj, value),
     sub_dir_time_resolution |-> SubDirResolutionOf(obj, value),
     end_time_superior |-> get_superior_time_resolution(value.E),
     path_regex |-> value,
     single_file |-> (value.sub_dir = <<>> /\ value.name = {} /\ value.E = {})]

\* Dataset(path)
NewPath ==
    /\ ~pathst.made
    /\ \E value \in Paths : pathst' = path_setter(NewDataset, value)
    /\ UNCHANGED <<dsVars, findVars, mapVars, closest, nameVars, phVars, ovVars,
                   linkVars, mg, th, walk>>

\* destination = copy.copy(self); destination.path = to, and the same for
\* a string output of map: the setter runs on the attributes of the copy
AssignPath ==
    /\ pathst.made
    /\ \E value \in Paths : pathst' = path_setter(pathst, value)
    /\ UNCHANGED <<dsVars, findVars, mapVars, closest, nameVars, phVars, ovVars,
                   linkVars, mg, th, walk>>

\* ---------------------------------------------------------- find_closest
\* IntervalTree.interval_contains: the point lies in the closed interval
interval_contains(interval, point) == interval[1] <= point /\ point <= interval[2]

Abs(x) == IF x < 0 THEN 0 - x ELSE x

\* np.min(np.abs(np.asarray(times) - timestamp), axis=1) for one file
ClosestDistance(p, timestamp) ==
    Min(Abs(get_info(p).times[1] - timestamp), Abs(get_info(p).times[2] - timestamp))

\* self.generate_filename(timestamp) and os.path.isfile(path): the file
\* whose name is rendered from the timestamp, 0 if there is none; the path
\* names a file by its start
RenderedFile(timestamp) ==
    IF \E p \in 1..Len(fs) : fs[p][1] = timestamp
    THEN CHOOSE p \in 1..Len(fs) : fs[p][1] = timestamp
    ELSE 0

\* no_files_error of the find call in find_closest (the default of find)
ClosestNoFilesErrorOff == FALSE
ClosestNoFilesError == TRUE

\* the files the search of find_closest is asked to skip
ClosestSkips(times) == is_excluded(times)

\* list(self.find(start, end, sort=False)): the files in discovery order
RECURSIVE ClosestFind(_, _, _)
ClosestFind(pos, start, end) ==
    IF pos > Len(fs) THEN <<>>
    ELSE (IF interval_overlaps(get_info(pos).times, <<start, end>>)
              /\ ~ClosestSkips(get_info(pos).times)
          THEN <<pos>> ELSE <<>>) \o ClosestFind(pos + 1, start, end)

\* the first file that covers the timestamp, else the first of the files
\* closest to it (np.argmin)
ClosestPick(found, timestamp) ==
    LET covering == {i \in 1..Len(found) : interval_contains(get_info(found[i]).times, timestamp)}
        nearest == {i \in 1..Len(found) :
                       \A j \in 1..Len(found) :
                           ClosestDistance(found[i], timestamp)
                               <= ClosestDistance(found[j], timestamp)}
        first(S) == CHOOSE i \in S : \A j \in S : i <= j
    IN IF covering # {} THEN found[first(covering)] ELSE found[first(nearest)]

NoCall == [timestamp |-> 0, resolution |-> None, result |-> "none", file |-> 0]

RestIdle ==
    /\ closest = NoCall
    /\ filename = NoName
    /\ coverage = NotRetrieved
    /\ template = NoTemplate
    /\ start_end = NoTimes
    /\ PhIdle
    /\ files1 = <<>>
    /\ files2 = <<>>
    /\ OvIdle
    /\ LinkIdle
    /\ mg = NoMerge
    /\ th = NoThreads
    /\ walk = NoWalk
    /\ pathst = NewDataset

\* find_closest(timestamp) on a dataset whose sub directories have the
\* given time resolution (None without sub directories)
FindClosest ==
    /\ closest.result = "none"
    /\ \E timestamp \in FileTime, resolution \in {None, Microsecond} :
        LET start == IF resolution = None THEN DatetimeMin ELSE timestamp - resolution
            end == IF resolution = None THEN DatetimeMax ELSE timestamp + resolution
            found == ClosestFind(1, start, HalfOpenEnd(end))
            ended(r, f) == closest' = [timestamp |-> timestamp, resolution |-> resolution,
                                       result |-> r, file |-> f]
        IN IF single_file
           THEN IF path_exists THEN ended("path", 0) ELSE ended("ValueError", 0)
           ELSE IF RenderedFile(timestamp) # 0
           THEN ended("file", RenderedFile(timestamp))
           ELSE IF found = <<>>
           THEN IF ClosestNoFilesError THEN ended("NoFilesError", 0) ELSE ended("None", 0)
           ELSE ended("file", ClosestPick(found, timestamp))
    /\ UNCHANGED <<dsVars, findVars, mapVars, nameVars, phVars, ovVars, linkVars, mg, th, walk, pathst>>

FindIdle ==
    /\ fpc = "idle"
    /\ fargs = NoArgs
    /\ fend = DatetimeMax
    /\ ffPos = 1
    /\ teeBuf = <<>>
    /\ out = <<>>
    /\ yielded = <<>>
    /\ ferr = "none"
    /\ listed = 0

\* a dataset as Dataset.__init__ leaves it: a multi-file dataset over the
\* files on disk, or a single-file dataset with its configured coverage
InitDataset ==
    /\ exclude \in ExcludeChoices
    /\ \/ /\ single_file = FALSE
          /\ path_exists = TRUE
          /\ time_coverage = None
          /\ fs \in SeqsUpTo(FileIntervals, MaxFiles)
       \/ /\ single_file = TRUE
          /\ path_exists \in BOOLEAN
          /\ time_coverage \in FileIntervals \cup {DefaultCoverage}
          /\ fs = <<>>

Init == InitDataset /\ CacheIdle /\ FindIdle /\ MapIdle /\ RestIdle

Next == FindCall \/ FindBegin \/ FindResume \/ FindClose

Spec == Init /\ [][Next]_vars

\* the single-file datasets whose path is an existing file
InitSingle == Init /\ single_file /\ path_exists

SpecSingle == InitSingle /\ [][Next]_vars

\* the dispatcher is given its files directly (files=...): the dataset it
\* belongs to takes no part
InitMap ==
    /\ single_file = FALSE
    /\ path_exists = TRUE
    /\ time_coverage = None
    /\ fs = <<>>
    /\ exclude = {}
    /\ CacheIdle
    /\ FindIdle
    /\ MapIdle
    /\ RestIdle

NextMap ==
    DispatchCall \/ WorkerStart \/ WorkerFinish \/ MapReturn
        \/ ImapBegin \/ ImapYield \/ ImapResume \/ ImapClose

SpecMap == InitMap /\ [][NextMap]_vars

\* datasets for the searches that share an info cache: a single file, or
\* MaxCached files
InitCached ==
    /\ exclude = {}
    /\ path_exists = TRUE
    /\ \/ /\ single_file = FALSE
          /\ time_coverage \in (0..MaxDur) \cup {None}
          /\ fs \in [1..MaxCached -> RawInfos]
       \/ /\ single_file = TRUE
          /\ time_coverage \in FileIntervals \cup {DefaultCoverage}
          /\ fs = <<>>
    /\ CacheIdle
    /\ FindIdle
    /\ MapIdle
    /\ RestIdle

\* searches over a dataset whose files change between them
NextFindCache == GetInfo \/ FileRewritten

SpecFindCache == InitCached /\ [][NextFindCache]_vars

\* a dataset of MaxCached files with an info cache file that is missing,
\* unparseable, or was saved by an earlier run
InitCacheFile ==
    /\ exclude = {}
    /\ path_exists = TRUE
    /\ single_file = FALSE
    /\ time_coverage = None
    /\ fs = [path \in 1..MaxCached |-> <<DatetimeMin + 1, DatetimeMin + 1>>]
    /\ info_cache = <<>>
    /\ returned = <<>>
    /\ cpc = "idle"
    /\ \E cache_file \in {Missing, File(<<>>, FALSE), File(<<>>, TRUE),
                           File(<<to_json_dict(1, <<DatetimeMin + 1, DatetimeMin + 2>>)>>, TRUE),
                           File(<<to_json_dict(1, <<DatetimeMin + 1, DatetimeMin + 2>>)>>, FALSE)} :
          disk = [name \in {"cache", "backup"} |->
                      IF name = "cache" THEN cache_file ELSE Missing]
    /\ FindIdle
    /\ MapIdle
    /\ RestIdle

NextCacheFile ==
    GetInfo \/ LoadInfoCache \/ SaveOpen \/ SaveWrite \/ SaveClose \/ SaveMove \/ Crash

SpecCacheFile == InitCacheFile /\ [][NextCacheFile]_vars

\* searches over a dataset whose time coverage is set between them
NextCoverage == GetInfo \/ SetTimeCoverage

SpecCoverage == InitCached /\ [][NextCoverage]_vars

\* datasets whose files are named by their start time
InitClosest ==
    /\ exclude \in {{}, {<<DatetimeMin + 1, DatetimeMax - 1>>}}
    /\ \/ /\ single_file = FALSE
          /\ path_exists = TRUE
          /\ time_coverage = None
          /\ fs \in SeqsUpTo(FileIntervals, MaxFiles)
          /\ \A p, q \in 1..Len(fs) : p # q => fs[p][1] # fs[q][1]
       \/ /\ single_file = TRUE
          /\ path_exists \in BOOLEAN
          /\ time_coverage \in FileIntervals \cup {DefaultCoverage}
          /\ fs = <<>>
    /\ CacheIdle
    /\ FindIdle
    /\ MapIdle
    /\ RestIdle

NextClosest == FindClosest

SpecClosest == InitClosest /\ [][NextClosest]_vars

\* the paths: every placeholder for the start, hour and minute only, or
\* none; any placeholders for the end
StartPlaceholders == {FieldIds, {4, 5}, {}}

\* the filenames that match such a path
InitNames ==
    /\ \E S \in StartPlaceholders, E \in SUBSET FieldIds :
         \E sv \in [S -> Digits], ev \in [E -> Digits] :
            filename = [S |-> S, E |-> E, sv |-> sv, ev |-> ev]
    /\ coverage = NotRetrieved
    /\ template = NoTemplate
    /\ start_end = NoTimes
    /\ PhIdle
    /\ files1 = <<>>
    /\ files2 = <<>>
    /\ OvIdle
    /\ LinkIdle
    /\ mg = NoMerge
    /\ th = NoThreads
    /\ walk = NoWalk
    /\ pathst = NewDataset
    /\ closest = NoCall
    /\ single_file = FALSE
    /\ path_exists = TRUE
    /\ time_coverage = None
    /\ fs = <<>>
    /\ exclude = {}
    /\ CacheIdle
    /\ FindIdle
    /\ MapIdle

NextNames == RetrieveTimeCoverage

SpecNames == InitNames /\ [][NextNames]_vars

\* the templates that are rendered: start placeholders as above without
\* the empty set, and some sets of end placeholders
RenderedEnds == {{}, {5}, {4}, {4, 5}, FieldIds}
\* the time pairs that are rendered: the end up to one month after the start
MaxSpan == Resolution(2)

InitRender ==
    /\ \E S \in StartPlaceholders \ {{}}, E \in RenderedEnds :
          template = [S |-> S, E |-> E]
    /\ \E t0 \in 0..(DateLimit - 1) :
          \E t1 \in t0..(t0 + MaxSpan) :
             t1 < DateLimit /\ start_end = <<t0, t1>>
    /\ filename = NoName
    /\ coverage = NotRetrieved
    /\ PhIdle
    /\ files1 = <<>>
    /\ files2 = <<>>
    /\ OvIdle
    /\ LinkIdle
    /\ mg = NoMerge
    /\ th = NoThreads
    /\ walk = NoWalk
    /\ pathst = NewDataset
    /\ closest = NoCall
    /\ single_file = FALSE
    /\ path_exists = TRUE
    /\ time_coverage = None
    /\ fs = <<>>
    /\ exclude = {}
    /\ CacheIdle
    /\ FindIdle
    /\ MapIdle

NextRender == GenerateFilename \/ ParseGenerated

SpecRender == InitRender /\ [][NextRender]_vars

InitPlaceholders ==
    /\ PhIdle
    /\ files1 = <<>>
    /\ files2 = <<>>
    /\ OvIdle
    /\ LinkIdle
    /\ mg = NoMerge
    /\ th = NoThreads
    /\ walk = NoWalk
    /\ pathst = NewDataset
    /\ closest = NoCall
    /\ filename = NoName
    /\ coverage = NotRetrieved
    /\ template = NoTemplate
    /\ start_end = NoTimes
    /\ single_file = FALSE
    /\ path_exists = TRUE
    /\ time_coverage = None
    /\ fs = <<>>
    /\ exclude = {}
    /\ CacheIdle
    /\ FindIdle
    /\ MapIdle

NextPlaceholders == Construct \/ SetPlaceholders \/ GenerateFilenameUser

SpecPlaceholders == InitPlaceholders /\ [][NextPlaceholders]_vars

InitOverlaps ==
    /\ files1 \in SeqsUpTo(PrimaryIntervals, 2)
    /\ files2 \in SeqsUpTo(SecondaryIntervals, 2)
    /\ OvIdle
    /\ LinkIdle
    /\ mg = NoMerge
    /\ th = NoThreads
    /\ walk = NoWalk
    /\ pathst = NewDataset
    /\ PhIdle
    /\ closest = NoCall
    /\ filename = NoName
    /\ coverage = NotRetrieved
    /\ template = NoTemplate
    /\ start_end = NoTimes
    /\ single_file = FALSE
    /\ path_exists = TRUE
    /\ time_coverage = None
    /\ fs = <<>>
    /\ exclude = {}
    /\ CacheIdle
    /\ FindIdle
    /\ MapIdle

NextOverlaps == OverlapsCall \/ OverlapsBegin \/ OverlapsResume

SpecOverlaps == InitOverlaps /\ [][NextOverlaps]_vars

InitLinks ==
    /\ names \in [DatasetIds -> DatasetNames]
    /\ link = [d \in DatasetIds |-> <<>>]
    /\ rd = NoRead
    /\ mg = NoMerge
    /\ th = NoThreads
    /\ walk = NoWalk
    /\ pathst = NewDataset
    /\ files1 = <<>>
    /\ files2 = <<>>
    /\ OvIdle
    /\ PhIdle
    /\ closest = NoCall
    /\ filename = NoName
    /\ coverage = NotRetrieved
    /\ template = NoTemplate
    /\ start_end = NoTimes
    /\ single_file = FALSE
    /\ path_exists = TRUE
    /\ time_coverage = None
    /\ fs = <<>>
    /\ exclude = {}
    /\ CacheIdle
    /\ FindIdle
    /\ MapIdle

NextLinks == Link \/ Read

SpecLinks == InitLinks /\ [][NextLinks]_vars

InitMerge ==
    /\ mg \in MergeCalls
    /\ th = NoThreads
    /\ walk = NoWalk
    /\ pathst = NewDataset
    /\ LinkIdle
    /\ files1 = <<>>
    /\ files2 = <<>>
    /\ OvIdle
    /\ PhIdle
    /\ closest = NoCall
    /\ filename = NoName
    /\ coverage = NotRetrieved
    /\ template = NoTemplate
    /\ start_end = NoTimes
    /\ single_file = FALSE
    /\ path_exists = TRUE
    /\ time_coverage = None
    /\ fs = <<>>
    /\ exclude = {}
    /\ CacheIdle
    /\ FindIdle
    /\ MapIdle

NextMerge == Merge

SpecMerge == InitMerge /\ [][NextMerge]_vars

InitThreads ==
    /\ th \in ThreadCalls
    /\ walk = NoWalk
    /\ pathst = NewDataset
    /\ mg = NoMerge
    /\ LinkIdle
    /\ files1 = <<>>
    /\ files2 = <<>>
    /\ OvIdle
    /\ PhIdle
    /\ closest = NoCall
    /\ filename = NoName
    /\ coverage = NotRetrieved
    /\ template = NoTemplate
    /\ start_end = NoTimes
    /\ single_file = FALSE
    /\ path_exists = TRUE
    /\ time_coverage = None
    /\ fs = <<>>
    /\ exclude = {}
    /\ CacheIdle
    /\ FindIdle
    /\ MapIdle

NextThreads == ThreadStart \/ ThreadSetContent \/ ThreadSetInfo \/ ThreadCall

SpecThreads == InitThreads /\ [][NextThreads]_vars

InitWalk ==
    /\ \E c \in SubDirs, t \in 0..(DateLimit - 1), d \in 0..MaxDur,
          w \in {Resolution(5), Resolution(3)} :
          \E a \in {x \in 0..(DateLimit - 1) : x % Resolution(3) = 0} :
             walk = Walk(c, t, d, a, w)
    /\ pathst = NewDataset
    /\ th = NoThreads
    /\ mg = NoMerge
    /\ LinkIdle
    /\ files1 = <<>>
    /\ files2 = <<>>
    /\ OvIdle
    /\ PhIdle
    /\ closest = NoCall
    /\ filename = NoName
    /\ coverage = NotRetrieved
    /\ template = NoTemplate
    /\ start_end = NoTimes
    /\ single_file = FALSE
    /\ path_exists = TRUE
    /\ time_coverage = None
    /\ fs = <<>>
    /\ exclude = {}
    /\ CacheIdle
    /\ FindIdle
    /\ MapIdle

NextWalk == WalkFind

SpecWalk == InitWalk /\ [][NextWalk]_vars

InitPath ==
    /\ pathst = NewDataset
    /\ walk = NoWalk
    /\ th = NoThreads
    /\ mg = NoMerge
    /\ LinkIdle
    /\ files1 = <<>>
    /\ files2 = <<>>
    /\ OvIdle
    /\ PhIdle
    /\ closest = NoCall
    /\ filename = NoName
    /\ coverage = NotRetrieved
    /\ template = NoTemplate
    /\ start_end = NoTimes
    /\ single_file = FALSE
    /\ path_exists = TRUE
    /\ time_coverage = None
    /\ fs = <<>>
    /\ exclude = {}
    /\ CacheIdle
    /\ FindIdle
    /\ MapIdle

NextPath == NewPath \/ AssignPath

SpecPath == InitPath /\ [][NextPath]_vars

\* ---------------------------------------------------------------- claims
RECURSIVE Flat(_)
Flat(bundles) == IF bundles = <<>> THEN <<>> ELSE Head(bundles) \o Flat(Tail(bundles))

StartOf(p) == get_info(p).times[1]
EndOf(p) == get_info(p).times[2]
Range(s) == {s[i] : i \in 1..Len(s)}
FindRan == fpc \in {"single", "yielding", "done"}
FindEnded == fpc = "done" /\ ferr = "none"
NonDecreasing(f) == \A i, j \in 1..Len(f) : i < j => StartOf(f[i]) <= StartOf(f[j])
InsideExcluded(p) ==
    \E iv \in exclude : iv[1] <= StartOf(p) /\ EndOf(p) <= iv[2]
OutsideExcluded(p) ==
    \A iv \in exclude : EndOf(p) < iv[1] \/ iv[2] < StartOf(p)
InWindow(p) == StartOf(p) < fargs.end /\ EndOf(p) >= fargs.start
WindowOk == fargs.end > DatetimeMin /\ fargs.end - Microsecond >= fargs.start
\* the files of the dataset: the listed ones, or the one file of a
\* single-file dataset when it exists
Files == IF single_file THEN (IF path_exists THEN {0} ELSE {}) ELSE 1..Len(fs)
Survivors == {p \in Files : InWindow(p) /\ ~InsideExcluded(p)}

\* C1: with sort=true the files find yields are in non-decreasing order of
\* their start time, and files with the same start time keep the order in
\* which they were discovered (paths are numbered in discovery order)
C1_SortedStable ==
    (FindRan /\ fargs.sort) =>
        LET f == Flat(yielded)
        IN \A i, j \in 1..Len(f) :
              i < j => /\ StartOf(f[i]) <= StartOf(f[j])
                       /\ (StartOf(f[i]) = StartOf(f[j]) => f[i] < f[j])

C1_Witness ==
    /\ FindEnded /\ fargs.sort /\ fargs.bundle.kind = "none"
    /\ Len(fs) = 3 /\ Len(yielded) = 3
    /\ fs[1][1] > fs[2][1] /\ fs[2][1] = fs[3][1]
    /\ Flat(yielded) = <<2, 3, 1>>

\* C2: with a bundle argument (integer or frequency string) the files of
\* the yielded bundles, read one bundle after the other, are in
\* non-decreasing order of their start time, also when sort=false
C2_BundlesSorted ==
    (FindRan /\ fargs.bundle.kind # "none") => NonDecreasing(Flat(yielded))

C2_Witness ==
    /\ FindEnded /\ ~fargs.sort /\ fargs.bundle.kind = "int"
    /\ Len(fs) = 3 /\ fs[1][1] > fs[2][1] /\ fs[2][1] = fs[3][1]
    /\ Flat(yielded) = <<2, 3, 1>>

\* C3: with an integer bundle N over K > 0 found files of a multi-file
\* dataset, the bundles hold exactly the K files, each once, every bundle
\* but the last has N files, the last has between 1 and N, none is empty
C3_BundleSizes ==
    (FindEnded /\ ~single_file /\ fargs.bundle.kind = "int" /\ Survivors # {}) =>
        LET f == Flat(yielded)
            n == fargs.bundle.n
        IN /\ Len(f) = Cardinality(Survivors)
           /\ Range(f) = Survivors
           /\ \A b \in 1..Len(yielded) :
                 /\ Len(yielded[b]) >= 1
                 /\ Len(yielded[b]) <= n
                 /\ (b < Len(yielded) => Len(yielded[b]) = n)

C3_Witness ==
    /\ FindEnded /\ fargs.bundle.kind = "int" /\ fargs.bundle.n = 2
    /\ Cardinality(Survivors) = 3
    /\ Len(yielded) = 2 /\ Len(yielded[1]) = 2 /\ Len(yielded[2]) = 1

\* C4: every file find(start, end) yields overlaps the half-open window
\* [start, end): it starts before end and does not end before start; a file
\* that ends exactly at start is yielded (unless excluded)
C4_HalfOpenWindow ==
    /\ FindRan => \A p \in Range(Flat(yielded)) : InWindow(p)
    /\ (FindEnded /\ WindowOk) =>
           \A p \in Files : (EndOf(p) = fargs.start /\ ~InsideExcluded(p))
                                => p \in Range(Flat(yielded))

C4_Witness ==
    /\ FindEnded /\ ~single_file /\ Len(fs) = 2
    /\ EndOf(1) = fargs.start /\ StartOf(2) = fargs.end
    /\ Flat(yielded) = <<1>>

\* C5: for multi-file and single-file datasets find never yields a file
\* whose coverage lies inside an excluded interval, and a file in the
\* window whose coverage lies outside every excluded interval is yielded
C5_ExclusionRespected ==
    /\ FindRan => \A p \in Range(Flat(yielded)) : ~InsideExcluded(p)
    /\ (FindEnded /\ WindowOk) =>
           \A p \in Files : (InWindow(p) /\ OutsideExcluded(p))
                                => p \in Range(Flat(yielded))

\* C6: when end minus one microsecond is before start, find fails with
\* ValueError, yields no file and lists no directory
C6_EmptyWindowRejected ==
    (fpc \in {"single", "yielding", "done"} /\ fargs.end > DatetimeMin
        /\ fargs.end - Microsecond < fargs.start) =>
        /\ fpc = "done"
        /\ ferr = "ValueError"
        /\ yielded = <<>>
        /\ listed = 0

C6_Witness ==
    /\ fpc = "done" /\ ferr = "ValueError"
    /\ ~single_file /\ Len(fs) = 3 /\ exclude = {}
    /\ fargs.start = fargs.end /\ fargs.start = StartOf(1)
    /\ listed = 0 /\ yielded = <<>>

\* C7: with no_files_error=true and no surviving file find fails with
\* NoFilesError; with no_files_error=false it ends empty and without error;
\* with a surviving file NoFilesError is not raised and every surviving
\* file is yielded exactly once; for single-file and multi-file datasets
C7_NoFilesError ==
    (fpc = "done" /\ WindowOk) =>
        /\ (Survivors = {} /\ fargs.no_files_error) => ferr = "NoFilesError"
        /\ (Survivors = {} /\ ~fargs.no_files_error) =>
               (ferr = "none" /\ yielded = <<>>)
        /\ Survivors # {} =>
               /\ ferr = "none"
               /\ Range(Flat(yielded)) = Survivors
               /\ Len(Flat(yielded)) = Cardinality(Survivors)

\* C8: map and imap deliver one output per input element, the i-th output
\* being the result for the i-th input, whatever the number of workers and
\* the order in which they finish
C8_OutputsInInputOrder ==
    /\ Len(outputs) <= Len(inputs)
    /\ \A i \in 1..Len(outputs) :
          outputs[i] = call_map_function(inputs[i], func, output)
    /\ (ipc = "done" /\ merr = "none") => Len(outputs) = Len(inputs)

C8_Witness ==
    /\ mode = "imap" /\ nworkers = 2 /\ Len(inputs) = 3
    /\ inputs[1] # inputs[2] /\ inputs[2] # inputs[3]
    /\ Len(outputs) = 1 /\ Len(task) = 3
    /\ task[2].st = "running" /\ task[3].st = "done"

\* C9: in imap, whenever the result of an element that has a successor is
\* yielded, the task of the successor has already been submitted
C9_LookaheadSubmitted ==
    [][(mode = "imap" /\ Len(outputs') > Len(outputs) /\ Len(outputs') < Len(inputs))
          => submitted >= Len(outputs') + 1]_vars

C9_Witness ==
    /\ mode = "imap" /\ ipc = "yielded_loop"
    /\ Len(inputs) = 3 /\ Len(outputs) = 2 /\ submitted = 3

\* C10: with N workers and at least N + 1 input elements, imap has N + 1
\* tasks in flight (submitted and not yet yielded) at some moment
C10_InFlightWorkersPlusOne ==
    (mode = "imap" /\ ipc = "done" /\ merr = "none" /\ Len(inputs) >= nworkers + 1)
        => maxInFlight >= nworkers + 1

Done == {i \in 1..Len(task) : task[i].st = "done"}
ReturnsValue(i) == func.on # task[i].arg
ReturnsNone(i) == func.kind = "None" /\ func.on = task[i].arg
WritesNamed(file_info) ==
    {j \in 1..Len(written) : written[j].name = [rendered_from |-> file_info]}

\* C11: for every dispatched file whose task has finished: with an output
\* and a return value other than None the value is written once under the
\* name rendered from the input file and True is reported; with an output
\* and None nothing is written and False is reported; without an output
\* nothing is written and the return value of func is reported
C11_OutputWrittenOnce ==
    /\ \A i \in Done :
          /\ (output /\ ReturnsValue(i)) => task[i].result.value = "True"
          /\ (output /\ ReturnsNone(i)) => task[i].result.value = "False"
          /\ (~output /\ ReturnsValue(i)) => task[i].result.value = "value"
          /\ (~output /\ ReturnsNone(i)) => task[i].result.value = "None"
    /\ ~output => written = <<>>
    /\ output =>
          \A f \in 1..MaxFiles :
              /\ Cardinality(WritesNamed(f))
                    = Cardinality({i \in Done : task[i].arg = f /\ ReturnsValue(i)})
              /\ \A j \in WritesNamed(f) : written[j].data = f

C11_Witness ==
    /\ output /\ func.kind = "None" /\ ipc = "done" /\ merr = "none"
    /\ Len(inputs) = 3 /\ inputs[2] = func.on /\ inputs[1] # func.on /\ inputs[3] # func.on
    /\ Len(written) = 2
    /\ outputs[1].value = "True" /\ outputs[2].value = "False"

Raisers == {i \in 1..Len(inputs) : func.kind = "raise" /\ func.on = inputs[i]}
FirstRaiser == CHOOSE k \in Raisers : \A r \in Raisers : k <= r

\* C12: when func raises for input element k (the first such element),
\* imap yields the results of the elements before k and then raises the
\* exception, map raises it and returns no list, and no result of element k
\* or of a later element is delivered
C12_WorkerExceptionPropagates ==
    Raisers # {} =>
        /\ Len(outputs) < FirstRaiser
        /\ ipc = "done" =>
              /\ merr = "FuncError"
              /\ mode = "imap" => Len(outputs) = FirstRaiser - 1
              /\ mode = "map" => outputs = <<>>
        /\ merr = "FuncError" => ipc = "done"

C12_Witness ==
    /\ mode = "imap" /\ ipc = "done" /\ merr = "FuncError"
    /\ Len(inputs) = 3 /\ FirstRaiser = 2
    /\ Len(outputs) = 1 /\ Len(task) = 3

\* C13: once map or imap has completed, failed with an exception of func,
\* or the imap generator was closed, the pool of the dispatch is no longer
\* open
C13_PoolReleased ==
    ipc \in {"done", "closed"} => pool # "open"

SamePath(i, j) == returned[i].path = returned[j].path

\* C14: when get_info is called again for a path, in any sequence of
\* searches over the same cache, it returns the record of the first call
\* and does not compute it again, also when the file has changed since
C14_CachedInfoIdentical ==
    \A i, j \in 1..Len(returned) :
        (i < j /\ SamePath(i, j)) =>
            /\ returned[j].times = returned[i].times
            /\ returned[j].cached

C14_Witness ==
    /\ Len(returned) = 2 /\ SamePath(1, 2)
    /\ returned[2].cached
    /\ returned[2].times # compute_info(returned[2].path)

\* C17: after time_coverage is set the info cache holds no record made
\* with an earlier coverage: every cached record is the one get_info
\* computes with the present coverage, for single-file and multi-file
\* datasets
C17_CoverageResetsCache ==
    \A path \in DOMAIN info_cache : info_cache[path] = compute_info(path)

C17_Witness ==
    /\ Len(returned) = 2 /\ SamePath(1, 2)
    /\ ~returned[2].cached
    /\ returned[2].times # returned[1].times
    /\ info_cache[returned[2].path] = returned[2].times

\* C15: whenever the cache file changes during save_info_cache it takes
\* over a completely written backup that holds the whole new content, so
\* it always holds its previous or the new content; a crash leaves at
\* most the backup partially written
C15_CacheFileNeverPartial ==
    [][disk'["cache"] # disk["cache"] =>
          /\ disk["backup"].exists /\ disk["backup"].complete
          /\ disk["backup"].recs = JsonList(info_cache, DOMAIN info_cache)
          /\ disk'["cache"] = disk["backup"]]_vars

C15_Witness ==
    /\ cpc = "crashed"
    /\ disk["backup"].exists /\ ~disk["backup"].complete
    /\ Len(disk["backup"].recs) = 1 /\ Cardinality(DOMAIN info_cache) = 2
    /\ disk["cache"] = File(<<to_json_dict(1, <<DatetimeMin + 1, DatetimeMin + 2>>)>>, TRUE)

\* C16: after load_info_cache has read an existing file that cannot be
\* parsed (a warning, no exception) the info cache is empty, whatever it
\* held before
C16_FailedLoadResetsCache ==
    cpc = "load_warned" => info_cache = <<>>

ClosestCalled == closest.result # "none"
ClosestStart ==
    IF closest.resolution = None THEN DatetimeMin ELSE closest.timestamp - closest.resolution
ClosestEnd ==
    IF closest.resolution = None THEN DatetimeMax ELSE closest.timestamp + closest.resolution
\* the files the search around the timestamp finds: in the window
\* [start, end) and not excluded
ClosestFound ==
    {p \in 1..Len(fs) : StartOf(p) < ClosestEnd /\ EndOf(p) >= ClosestStart
                            /\ ~InsideExcluded(p)}
NothingAt == \A p \in 1..Len(fs) : StartOf(p) # closest.timestamp
Covers(p) == StartOf(p) <= closest.timestamp /\ closest.timestamp <= EndOf(p)

\* C18 (as stated): when the path rendered from the timestamp does not
\* exist and the search around the timestamp finds no file, find_closest
\* returns None and raises nothing
C18_ReturnsNoneWhenNothingFound ==
    (ClosestCalled /\ ~single_file /\ NothingAt /\ ClosestFound = {})
        => closest.result = "None"

\* C18 (amended): when the path rendered from the timestamp does not exist
\* and the search around the timestamp finds no file, find_closest raises
\* NoFilesError and returns nothing
C18_RaisesNoFilesErrorWhenNothingFound ==
    (ClosestCalled /\ ~single_file /\ NothingAt /\ ClosestFound = {})
        => closest.result = "NoFilesError"

C18_Witness ==
    /\ closest.result = "NoFilesError" /\ Len(fs) = 1 /\ exclude = {}
    /\ closest.resolution = Microsecond
    /\ NothingAt /\ ClosestFound = {}

\* C19: find_closest ignores the exclusion set: when a file of the dataset
\* covers the timestamp, a file that covers it is returned, also when its
\* coverage lies inside an excluded interval, whether the file is reached
\* through the rendered path or through the search
C19_ClosestIgnoresExclude ==
    (ClosestCalled /\ ~single_file /\ \E p \in 1..Len(fs) : Covers(p))
        => (closest.result = "file" /\ Covers(closest.file))

\* the start and the end the captures of the filename stand for, the end
\* taking from the start the fields it has no capture for
CapturedStart == MakeDatetime(filename.sv)
CapturedEnd == MakeDatetime(MergeArgs(filename.sv, filename.ev))
\* the resolution next below the lowest of the end placeholders
EndSuperior ==
    Resolution((CHOOSE i \in filename.E : \A j \in filename.E : i <= j) - 1)

\* C20: when the end captures of a filename give an end before the start,
\* a time coverage that is returned has its end advanced by the end-superior
\* unit of the path and not before its start; for a path with hour and
\* minute as its start and as its end placeholders the coverage is returned
\* with the end advanced by one day
C20_EndAdvancedBySuperior ==
    (coverage.status # "none" /\ filename.E # {} /\ CapturedEnd < CapturedStart) =>
        /\ coverage.status = "ok" =>
               /\ coverage.end = CapturedEnd + EndSuperior
               /\ coverage.end >= coverage.start
        /\ (filename.S = {4, 5} /\ filename.E = {4, 5}) =>
               /\ coverage.status = "ok"
               /\ coverage.end = CapturedEnd + Resolution(3)

\* a time truncated to the finest of the placeholders
Finest(placeholders) == CHOOSE i \in placeholders : \A j \in placeholders : i >= j
Truncated(t, placeholders) == t - (t % Resolution(Finest(placeholders)))

\* C21: the name generated for a template and a time pair parses back to
\* the rendered values, and the time coverage retrieved from it is the time
\* pair truncated to the finest resolution of the template
C21_GenerateParseRoundTrip ==
    (start_end # NoTimes /\ coverage.status # "none") =>
        /\ filename.sv = [i \in template.S |-> FieldOf(start_end[1], i)]
        /\ filename.ev = [i \in template.E |-> FieldOf(start_end[2], i)]
        /\ coverage.status = "ok"
        /\ coverage.start = Truncated(start_end[1], template.S)
        /\ template.E # {} => coverage.end = Truncated(start_end[2], template.E)

\* a call of generate_filename for which the caller gave no fill for some
\* user placeholder of the template
MissingFill == ph_call.placeholders \ DOMAIN ph_call.fill

\* C22 (as stated): generate_filename on a template with a user placeholder
\* the caller gives no fill for fails with UnknownPlaceholderError
C22_MissingFillIsUnknownPlaceholder ==
    (ph_call.op = "generate" /\ MissingFill # {}) =>
        ph_call.result = "UnknownPlaceholderError"

\* C22 (amended): generate_filename on the path of the dataset, with a user
\* placeholder the caller gives no fill for and whose regex holds a special
\* character, fails with UnfilledPlaceholderError and returns no filename
C22_MissingFillIsUnfilledPlaceholder ==
    (/\ ph_call.op = "generate"
     /\ ph_call.own_path
     /\ \E p \in MissingFill : HasSpecialChars(user_placeholder[p])) =>
        /\ ph_call.result = "UnfilledPlaceholderError"
        /\ ph_call.values = <<>>

C22_Witness ==
    /\ ph_call.op = "generate"
    /\ ph_call.own_path
    /\ \E p \in MissingFill : user_placeholder[p] = Wildcard
    /\ ph_call.result = "UnfilledPlaceholderError"

\* what a call of generate_filename on the path of dataset d gives when the
\* caller gives no fill
DefaultRendering(d) ==
    generate_filename_user(d, datasets[d].path_placeholders, <<>>)

\* C28: constructing a dataset or setting its placeholders leaves the user
\* placeholders, the path regex and the default fills of every other
\* dataset as they were
C28_PlaceholdersPerDataset ==
    [][\A e \in DatasetIds :
          (/\ datasets[e].made
           /\ ph_call'.op \in {"construct", "set"}
           /\ ph_call'.dataset # e) =>
              /\ DefaultFill(e)' = DefaultFill(e)
              /\ datasets'[e].path_regex = datasets[e].path_regex
              /\ DefaultRendering(e)' = DefaultRendering(e)]_vars

\* the window of a call of overlaps_with, widened by max_interval, and the
\* files of the two datasets that find gives for it
OvStart == IF ov.max_interval = None THEN ov.start ELSE ov.start - ov.max_interval
OvEnd == IF ov.max_interval = None THEN ov.end ELSE ov.end + ov.max_interval
OvPrimaries == find_list(files1, OvStart, OvEnd).files
OvSecondaries == find_list(files2, OvStart, OvEnd).files
OvMatches(p) ==
    {q \in 1..Len(files2) :
        /\ \E j \in 1..Len(OvSecondaries) : OvSecondaries[j] = q
        /\ interval_overlaps(Widened(files2[q], ov.max_interval), files1[p])}

\* C23: overlaps_with yields one pair per primary file of the widened
\* window, in find order, and the secondaries of a pair are the secondary
\* files of that window whose widened interval overlaps the primary's
C23_OnePairPerPrimary ==
    (ov.pc = "done" /\ OvPrimaries # <<>>) =>
        /\ ov.err = "none"
        /\ Len(ov.yielded) = Len(OvPrimaries)
        /\ \A i \in 1..Len(ov.yielded) :
              /\ ov.yielded[i].file = OvPrimaries[i]
              /\ {ov.yielded[i].overlapping[k] :
                    k \in 1..Len(ov.yielded[i].overlapping)} = OvMatches(OvPrimaries[i])

\* the datasets linked to dataset d, directly and through links of links
Targets(d) == {link[d][k] : k \in DOMAIN link[d]}
RECURSIVE ReachableFrom(_, _)
ReachableFrom(ds, n) ==
    IF n = 0 THEN ds
    ELSE ReachableFrom(ds \cup UNION {Targets(e) : e \in ds}, n - 1)
LinkedTo(d) == ReachableFrom(Targets(d), MaxDatasets)
Cyclic(d) == \E e \in {d} \cup LinkedTo(d) : e \in LinkedTo(e)

\* C24: a read on a dataset whose links form a cycle ends with a
\* configuration error; a read with links that form no cycle reads every
\* linked target once and gives the merged data
C24_ReadFollowsLinks ==
    (rd.result # "none" /\ Targets(rd.dataset) # {}) =>
        IF Cyclic(rd.dataset) THEN rd.result = "ConfigurationError"
        ELSE rd.result = "merged"

\* two of the merged objects hold a variable with the same name
SameVariableTwice ==
    \E i, j \in 1..Len(mg.objects) : i # j /\ mg.objects[i] \cap mg.objects[j] # {}

\* C25: merge with overwrite_error raises KeyError whenever two of the
\* objects hold a variable with the same name
C25_MergeRaisesOnDuplicate ==
    (mg.result # "none" /\ mg.overwrite_error /\ SameVariableTwice) =>
        mg.result = "KeyError"

\* C26: with thread workers and file_arg_keys, the user function of every
\* task gets the file info, and the content, of its own task
C26_OwnFileInfoInKwargs ==
    \A t \in 1..th.n :
        th.pc[t] = "called" =>
            /\ th.received[t].info = t
            /\ th.on_content => th.received[t].content = t

\* C27: imap on an empty input ends without an exception, having yielded
\* nothing and submitted no task
C27_ImapEmptyInputEndsNormally ==
    (mode = "imap" /\ inputs = <<>> /\ ipc = "done") =>
        /\ merr = "none"
        /\ outputs = <<>>
        /\ submitted = 0

\* the time resolution of the sub directory of the searched path
WalkResolution == Resolution(HighestResolution(SubDirPlaceholders(walk.sub_dir)))

\* C29: a file in the directory that its start names, whose coverage
\* overlaps [start, end) and begins no earlier than start minus the time
\* resolution of the sub directory, is yielded by find(start, end)
C29_WalkLosesNoFile ==
    (/\ walk.result \in {"found", "NoFilesError"}
     /\ interval_overlaps(walk.file, <<walk.start, HalfOpenEnd(walk.end)>>)
     /\ walk.file[1] >= walk.start - WalkResolution) =>
        walk.result = "found"

\* C30: after any assignment to the path, what the setter derived from it
\* is what a new Dataset with that path would have
C30_DerivedStateIsFresh ==
    pathst.made => pathst = path_setter(NewDataset, pathst.path)

====
